---- MODULE Spec2Model ----
(***************************************************************************)
(* Model of dynamics/dynamics.py (class DynamicsSimulator): the integer    *)
(* apportionment round_individuals, the state validator, the payoff        *)
(* evaluator and the generation loop of simulate.                          *)
(*                                                                         *)
(* Real numbers are fixed-point: a real x is the integer x * Scale, with   *)
(* Scale one decimal digit finer than DECIMAL_PRECISION, so that the       *)
(* rounding round(x, DECIMAL_PRECISION) is a real operation of the model.  *)
(***************************************************************************)
EXTENDS Integers, Sequences, FiniteSets, TLC

VARIABLES
    rin,        \* round_individuals: the argument unrounded_frequencies
    rout,       \* round_individuals: the outcome of the call, or NotCalled
    pm,         \* calculate_payoffs: self.pm, the expected payoff of each (type, strategy)
    pstate,     \* calculate_payoffs: the argument state
    pout,       \* calculate_payoffs: the outcome of the call, or NotCalled
    self,       \* the simulator's attributes after __init__
    args,       \* the arguments of the simulate call
    pc,         \* where simulate is
    objs,       \* the state objects alive: object id -> its current value
    start_state,\* simulate's local start_state: an object id (0: not bound yet)
    strategies, \* simulate's list strategies: object ids, one per stored generation
    payoffs,    \* simulate's list payoffs, one entry per stored generation
    ncalls,     \* how many times next_generation has been invoked
    synth,      \* history: the synthesized start state before fixation seeding
    returned,   \* history: the states each next_generation call returned
    result      \* what simulate returned, or NotCalled

vars == <<rin, rout, pm, pstate, pout, self, args, pc, objs, start_state,
          strategies, payoffs, ncalls, synth, returned, result>>
simVars == <<self, args, pc, objs, start_state, strategies, payoffs, ncalls,
             synth, returned, result>>
roundVars == <<rin, rout>>
payoffVars == <<pm, pstate, pout>>

\* dynamics.py line 9
DECIMAL_PRECISION == 5

RECURSIVE Pow10(_)
Pow10(n) == IF n = 0 THEN 1 ELSE 10 * Pow10(n - 1)

\* One unit of the fixed-point representation is 10^-(DECIMAL_PRECISION+1).
Scale == Pow10(DECIMAL_PRECISION + 1)

\* Longest vector handed to round_individuals.
MaxLen == 3

NotCalled == [status |-> "not_called"]

RECURSIVE SumSeq(_)
SumSeq(s) == IF s = <<>> THEN 0 ELSE Head(s) + SumSeq(Tail(s))

\* math.fsum: the exactly rounded sum of the inputs.
fsum(v) == SumSeq(v)

\* round(x, DECIMAL_PRECISION): to the nearest multiple of 10^-DECIMAL_PRECISION,
\* a value exactly half way going to the even neighbour.
round(x) ==
    LET step == Scale \div Pow10(DECIMAL_PRECISION)
        lo   == (x \div step) * step
        rem  == x - lo
    IN  IF 2 * rem < step THEN lo
        ELSE IF 2 * rem > step THEN lo + step
        ELSE IF (lo \div step) % 2 = 0 THEN lo ELSE lo + step

\* int(x): truncation toward zero, as a count of whole individuals.
int(x) == IF x >= 0 THEN x \div Scale ELSE -((-x) \div Scale)

\* The list thresh of line 232: the pairs (x - y, i), here with i from 1.
Thresh(int_num_senders, v) ==
    { <<int_num_senders[i] * Scale - v[i], i>> : i \in DOMAIN v }

\* An order on pairs that lets the higher index win between equal keys.
TupleLessHighIndex(a, b) == a[1] < b[1] \/ (a[1] = b[1] /\ a[2] > b[2])

\* Python's order on pairs, which heapq uses.
TupleLess(a, b) == a[1] < b[1] \/ (a[1] = b[1] /\ a[2] < b[2])

\* heapq.heappop on a heapified list: the least pair.
heappop(thresh) == CHOOSE t \in thresh : \A u \in thresh : u = t \/ TupleLess(t, u)

\* A loop that stops after one pop whatever the deficit is.
PopLoopOnce(int_num_senders, thresh, diff) ==
    IF diff <= 0 \/ thresh = {} THEN [status |-> "ok", value |-> int_num_senders]
    ELSE [status |-> "ok",
          value  |-> [int_num_senders EXCEPT ![heappop(thresh)[2]] = @ + 1]]

\* The loop of lines 234-237; heappop on an empty heap raises IndexError.
RECURSIVE PopLoop(_, _, _)
PopLoop(int_num_senders, thresh, diff) ==
    IF diff <= 0 THEN [status |-> "ok", value |-> int_num_senders]
    ELSE IF thresh = {} THEN [status |-> "IndexError"]
    ELSE LET t == heappop(thresh)
         IN  PopLoop([int_num_senders EXCEPT ![t[2]] = @ + 1],
                     thresh \ {t}, diff - 1)

\* The target of line 224.
RoundTotal(v) == int(round(fsum(v)))

\* round_individuals, lines 211-239.
round_individuals(v) ==
    LET total           == RoundTotal(v)
        int_num_senders == [i \in DOMAIN v |-> int(v[i])]
        diff            == total - SumSeq(int_num_senders)
        looped          == IF diff > 0
                           THEN PopLoop(int_num_senders, Thresh(int_num_senders, v), diff)
                           ELSE [status |-> "ok", value |-> int_num_senders]
    IN  IF looped.status # "ok" THEN looped
        ELSE IF SumSeq(looped.value) # total THEN [status |-> "AssertionError"]
        ELSE looped

\* The non-negative reals round_individuals is called on: the docstring
\* example's 1.6, 1.3, 1.1, equal fractional parts (0.5, 1.5, 2.5), and
\* values within 10^-DECIMAL_PRECISION of an integer.
RoundVals == {0, 300000, 500000, 999996, 1100000, 1300000, 1500000, 1600000, 2500000}

SeqsUpTo(S, n) == UNION { [1..k -> S] : k \in 1..n }

SimIdle ==
    /\ self = <<>> /\ args = <<>> /\ pc = "idle" /\ objs = <<>> /\ start_state = 0
    /\ strategies = <<>> /\ payoffs = <<>> /\ ncalls = 0 /\ synth = <<>>
    /\ returned = <<>> /\ result = NotCalled

RoundIdle == rin = <<>> /\ rout = NotCalled
PayoffIdle == pm = <<>> /\ pstate = <<>> /\ pout = NotCalled

InitRound ==
    /\ rin \in SeqsUpTo(RoundVals, MaxLen)
    /\ rout = NotCalled
    /\ PayoffIdle
    /\ SimIdle

RoundCall ==
    /\ rout = NotCalled
    /\ rout' = round_individuals(rin)
    /\ UNCHANGED <<rin, payoffVars, simVars>>

NextRound == RoundCall

SpecRound == InitRound /\ [][NextRound]_vars

-----------------------------------------------------------------------------
(* calculate_payoffs *)

\* Most player types, most strategies of a type, most players on a strategy.
PayMaxTypes == 2
PayMaxStrats == 2
PayMaxCount == 2

\* Expected payoffs the payoff matrix answers with.
PayoffVals == {0, 1, 3}

\* sum(chain(*state)), line 250.
RECURSIVE SumAll(_)
SumAll(state) == IF state = <<>> THEN 0 ELSE SumSeq(Head(state)) + SumAll(Tail(state))

\* The (i, j) pairs the comprehension of line 250 runs over, with i and j
\* from 1: every type, and the strategies of the FIRST type.
AvgIndices(payoff) == (DOMAIN payoff) \X (1..Len(payoff[1]))

RECURSIVE SumOver(_, _, _)
SumOver(S, payoff, state) ==
    IF S = {} THEN 0
    ELSE LET ij == CHOOSE x \in S : TRUE
         IN  payoff[ij[1]][ij[2]] * state[ij[1]][ij[2]] + SumOver(S \ {ij}, payoff, state)

\* calculate_payoffs, lines 241-252. The average is the fraction num/den.
calculate_payoffs(m, state) ==
    LET payoff == [p \in DOMAIN m |-> [s \in 1..Len(m[p]) |-> m[p][s]]]
        idx    == AvgIndices(payoff)
    IN  IF \E ij \in idx : ij[2] > Len(payoff[ij[1]]) \/ ij[2] > Len(state[ij[1]])
        THEN [status |-> "IndexError"]
        ELSE [status |-> "ok", payoff |-> payoff,
              avg_group_payoff |-> [num |-> SumOver(idx, payoff, state),
                                    den |-> SumAll(state)]]

\* The tables with the given numbers of strategies and entries from S.
Tables(ns, S) ==
    { t \in [DOMAIN ns -> SeqsUpTo(S, PayMaxStrats)] :
        \A p \in DOMAIN ns : Len(t[p]) = ns[p] }

InitPayoff ==
    /\ RoundIdle
    /\ SimIdle
    /\ \E ns \in SeqsUpTo(1..PayMaxStrats, PayMaxTypes) :
          /\ pm \in Tables(ns, PayoffVals)
          /\ pstate \in Tables(ns, 0..PayMaxCount)
    /\ SumAll(pstate) > 0
    /\ pout = NotCalled

PayoffCall ==
    /\ pout = NotCalled
    /\ pm # <<>>
    /\ pout' = calculate_payoffs(pm, pstate)
    /\ UNCHANGED <<roundVars, pm, pstate, simVars>>

NextPayoff == PayoffCall

SpecPayoff == InitPayoff /\ [][NextPayoff]_vars

-----------------------------------------------------------------------------
(* __init__, validate_state and simulate *)

\* Largest pop_size given to the constructor; longest run.
MaxPop == 3
MaxGens == 2

\* number_groups given to the constructor.
GroupCounts == {1, 2}

\* (player_frequencies, pm.num_strats) given to the constructor.
TypeConfigs ==
    { [freqs |-> <<Scale>>, num_strats |-> <<1>>],
      [freqs |-> <<Scale>>, num_strats |-> <<2>>],
      [freqs |-> <<Scale>>, num_strats |-> <<3>>],
      [freqs |-> <<Scale \div 2, Scale \div 2>>, num_strats |-> <<2, 1>>] }

\* strategy_indx given to simulate (an index from 0, as in the source).
StrategyIndices == {0, 1, 2}

\* What np.random.uniform(0, 1, n) draws an entry from.
UniformDraws == {Scale \div 4, 3 * (Scale \div 4)}

\* __init__, lines 47-76. num_players is kept in fixed point for both
\* population regimes: counts times Scale when finite, the frequencies when not.
__init__(tc, number_groups, pop_size_arg, uniDist) ==
    LET pop_size == IF pop_size_arg > number_groups
                    THEN pop_size_arg \div number_groups ELSE pop_size_arg
        rounded  == round_individuals([t \in DOMAIN tc.freqs |-> pop_size * tc.freqs[t]])
    IN  IF fsum(tc.freqs) # Scale \/ pop_size_arg < 0 THEN [status |-> "AssertionError"]
        ELSE IF pop_size > 0
        THEN IF rounded.status # "ok" THEN rounded
             ELSE IF SumSeq(rounded.value) # pop_size THEN [status |-> "AssertionError"]
             ELSE [status |-> "ok",
                   num_players |-> [t \in DOMAIN tc.freqs |-> rounded.value[t] * Scale],
                   infinite_pop_size |-> FALSE, uniDist |-> uniDist,
                   pop_size |-> pop_size, number_groups |-> number_groups,
                   num_strats |-> tc.num_strats]
        ELSE [status |-> "ok", num_players |-> tc.freqs,
              infinite_pop_size |-> TRUE, uniDist |-> FALSE,
              pop_size |-> pop_size, number_groups |-> number_groups,
              num_strats |-> tc.num_strats]

\* self.pm.num_player_types
num_player_types(sim) == Len(sim.num_strats)

\* A validator that leaves out the check of the vector's sum.
validate_state_no_sum(sim, s) ==
    IF Len(s) # num_player_types(sim) THEN "AssertionError"
    ELSE IF \E t \in DOMAIN s : Len(s[t]) # sim.num_strats[t] THEN "AssertionError"
    ELSE "ok"

\* validate_state, lines 98-118: "ok" when s is returned, else the error raised.
validate_state(sim, s) ==
    IF Len(s) # num_player_types(sim) THEN "AssertionError"
    ELSE IF \E t \in DOMAIN s :
                \/ SumSeq(s[t]) # sim.num_players[t]
                \/ Len(s[t]) # sim.num_strats[t]
         THEN "AssertionError"
    ELSE "ok"

\* The vectors of k naturals that sum to n.
Compositions(n, k) == { c \in [1..k -> 0..n] : SumSeq(c) = n }

\* distribution_for_player(n_p, n_s), lines 144-150: every vector the chosen
\* sampler can draw (the Dirichlet draws in quarters of the mass).
distribution_for_player(sim, n_p, n_s) ==
    IF ~sim.infinite_pop_size
    THEN IF sim.uniDist
         THEN [1..n_s -> UniformDraws]
         ELSE { [x \in 1..n_s |-> c[x] * Scale] : c \in Compositions(n_p \div Scale, n_s) }
    ELSE { [x \in 1..n_s |-> c[x] * (n_p \div 4)] :
             c \in { d \in Compositions(4, n_s) : \A x \in 1..n_s : d[x] > 0 } }

\* The states one group can be given by line 152.
GroupDraws(sim) ==
    LET T == DOMAIN sim.num_strats
        D(t) == distribution_for_player(sim, sim.num_players[t], sim.num_strats[t])
    IN  { g \in [T -> UNION { D(t) : t \in T }] : \A t \in T : g[t] \in D(t) }

\* int(x / n) of line 168 for a fixed-point x: the quotient truncated, times Scale.
IntOfQuotient(x, n) ==
    (IF x >= 0 THEN x \div (n * Scale) ELSE -((-x) \div (n * Scale))) * Scale

\* The list player_dist of lines 163-173 for strategy index k (from 1).
player_dist(players_to_distribute, number_divisions, k) ==
    LET div    == IntOfQuotient(players_to_distribute, number_divisions)
        others == [x \in 1..number_divisions |->
                     IF x # number_divisions THEN div
                     ELSE players_to_distribute - (number_divisions - 1) * div]
    IN  SubSeq(others, 1, k - 1) \o <<0>> \o SubSeq(others, k, number_divisions)

\* A seeding whose last bucket takes the same share as the others.
SeedEvenShares(vec, k) ==
    LET nd == Len(vec) - 1
    IN  [x \in DOMAIN vec |->
           IF x = k THEN Scale
           ELSE vec[x] + IntOfQuotient(vec[k] - Scale, IF nd > 0 THEN nd ELSE 1)]

\* Lines 157-177 on the type-0 vector of the only group, k from 1. Line 177
\* only rebinds the local players_to_distribute, which is not read again.
Seed(vec, k) ==
    LET players_to_distribute == vec[k] - Scale
        number_divisions      == Len(vec) - 1
        dist == player_dist(players_to_distribute, number_divisions, k)
    IN  [x \in DOMAIN vec |-> IF x = k THEN Scale ELSE vec[x] + dist[x]]

\* Every player of every type on the first / on the last strategy.
AllOnFirst(sim) ==
    [t \in DOMAIN sim.num_strats |->
       [x \in 1..sim.num_strats[t] |-> IF x = 1 THEN sim.num_players[t] ELSE 0]]
AllOnLast(sim) ==
    [t \in DOMAIN sim.num_strats |->
       [x \in 1..sim.num_strats[t] |->
          IF x = sim.num_strats[t] THEN sim.num_players[t] ELSE 0]]

\* Group states that break the contract: a wrong total, a wrong vector
\* length, a wrong number of player types.
BadSum(sim) == [AllOnFirst(sim) EXCEPT ![1][1] = @ + Scale]
BadLen(sim) == [AllOnFirst(sim) EXCEPT ![1] = Append(@, 0)]
BadTypes(sim) == Append(AllOnFirst(sim), <<0>>)

\* What the caller may pass as start_state: None, or a list of group states.
SuppliedStates(sim) ==
    LET valid == [j \in 1..sim.number_groups |-> AllOnFirst(sim)]
    IN  { [given |-> FALSE, value |-> <<>>],
          [given |-> TRUE, value |-> valid],
          [given |-> TRUE, value |-> [valid EXCEPT ![1] = BadSum(sim)]],
          [given |-> TRUE, value |-> Append(valid, AllOnFirst(sim))] }

\* What a transition rule, an abstract method here, may return for one group.
ReturnedGroupStates(sim) ==
    {AllOnFirst(sim), AllOnLast(sim), BadSum(sim), BadLen(sim), BadTypes(sim)}

\* The payoffs a transition rule returns: c * (group + strategy) everywhere.
ReturnedPayoffs(sim, c) ==
    [j \in 1..sim.number_groups |->
       [t \in DOMAIN sim.num_strats |->
          [x \in 1..sim.num_strats[t] |-> c * (j + x) * Scale]]]

\* initial_payoffs, lines 185-187.
initial_payoffs(sim) ==
    [j \in 1..sim.number_groups |->
       [t \in DOMAIN sim.num_strats |-> [x \in 1..sim.num_strats[t] |-> 0]]]

InitSim ==
    /\ RoundIdle
    /\ PayoffIdle
    /\ \E tc \in TypeConfigs, g \in GroupCounts, pop \in 0..MaxPop, u \in BOOLEAN :
         /\ pop = 0 => ~u
         /\ __init__(tc, g, pop, u).status = "ok"
         /\ self = __init__(tc, g, pop, u)
    /\ \E n \in 0..MaxGens, fp \in BOOLEAN, k \in StrategyIndices,
          st \in SuppliedStates(self) :
         /\ ~fp => k = 0
         /\ args = [num_gens |-> n, start_state |-> st,
                    fixation_probability |-> fp, strategy_indx |-> k]
    /\ pc = "call"
    /\ objs = <<>>
    /\ start_state = 0
    /\ strategies = <<>>
    /\ payoffs = <<>>
    /\ ncalls = 0
    /\ synth = <<>>
    /\ returned = <<>>
    /\ result = NotCalled

\* Lines 142-152: no start_state was given, one is drawn for every group.
SynthesizeStart ==
    /\ pc = "call"
    /\ ~args.start_state.given
    /\ \E st \in [1..self.number_groups -> GroupDraws(self)] :
         /\ objs' = <<st>>
         /\ synth' = st
    /\ start_state' = 1
    /\ pc' = IF args.fixation_probability THEN "seed" ELSE "store"
    /\ UNCHANGED <<roundVars, payoffVars>>
    /\ UNCHANGED <<self, args, strategies, payoffs, ncalls, returned, result>>

\* Lines 155-177: the start state is rewritten for a fixation probability.
FixationSeed ==
    /\ pc = "seed"
    /\ LET k == args.strategy_indx + 1
       IN  IF self.number_groups # 1 THEN
               /\ pc' = "AssertionError"
               /\ objs' = objs
           ELSE IF k > Len(objs[start_state][1][1]) THEN
               /\ pc' = "IndexError"
               /\ objs' = objs
           ELSE
               /\ pc' = "store"
               /\ objs' = [objs EXCEPT ![start_state][1][1] = Seed(@, k)]
    /\ UNCHANGED <<roundVars, payoffVars>>
    /\ UNCHANGED <<self, args, start_state, strategies, payoffs, ncalls, synth,
                   returned, result>>

\* Lines 179-182: the caller's start_state is validated group by group.
AdoptStart ==
    /\ pc = "call"
    /\ args.start_state.given
    /\ objs' = <<args.start_state.value>>
    /\ start_state' = 1
    /\ pc' = IF Len(args.start_state.value) # self.number_groups THEN "AssertionError"
             ELSE IF \E j \in 1..self.number_groups :
                        validate_state(self, args.start_state.value[j]) # "ok"
             THEN "AssertionError"
             ELSE "store"
    /\ UNCHANGED <<roundVars, payoffVars>>
    /\ UNCHANGED <<self, args, strategies, payoffs, ncalls, synth, returned, result>>

\* Lines 184-191: the first entries of the two trajectories.
StoreInitial ==
    /\ pc = "store"
    /\ strategies' = <<start_state>>
    /\ payoffs' = <<initial_payoffs(self)>>
    /\ pc' = "loop"
    /\ UNCHANGED <<roundVars, payoffVars>>
    /\ UNCHANGED <<self, args, objs, start_state, ncalls, synth, returned, result>>

\* The lists of group states a rule may return: every group on the first
\* strategy, but for at most one group, which has any state of
\* ReturnedGroupStates.
ReturnedStates(sim) ==
    LET base == [j \in 1..sim.number_groups |-> AllOnFirst(sim)]
    IN  { [base EXCEPT ![j] = g] :
            j \in 1..sim.number_groups, g \in ReturnedGroupStates(sim) }

\* What next_generation(previous, ...) does: it returns states and payoffs for
\* every group, and it may have rewritten the object previous in place.
next_generation(sim, previous) ==
    { [r |-> r, p |-> ReturnedPayoffs(sim, v.c), previous |-> v.after] :
        r \in ReturnedStates(sim),
        v \in { [c |-> 0, after |-> previous],
                [c |-> 1, after |-> previous],
                [c |-> 1, after |-> [j \in 1..sim.number_groups |-> AllOnLast(sim)]] } }

\* The index i of the loop of line 194.
LoopIndex == Len(strategies) - 1

\* One turn of the loop, lines 194-200.
Generation ==
    /\ pc = "loop"
    /\ LoopIndex < args.num_gens
    /\ \E out \in next_generation(self, objs[start_state]) :
         LET id == Len(objs) + 1
         IN  /\ objs' = Append([objs EXCEPT ![start_state] = out.previous], out.r)
             /\ strategies' = Append(strategies, id)
             /\ payoffs' = Append(payoffs, out.p)
             /\ start_state' = id
             /\ returned' = Append(returned, out.r)
             /\ pc' = IF \E j \in 1..self.number_groups :
                            validate_state(self, out.r[j]) # "ok"
                      THEN "AssertionError" ELSE "loop"
    /\ ncalls' = ncalls + 1
    /\ UNCHANGED <<roundVars, payoffVars>>
    /\ UNCHANGED <<self, args, synth, result>>

\* The elementwise mean over the groups of the vectors vs[1], vs[2], ...
RECURSIVE VecSum(_, _)
VecSum(vs, x) == IF vs = <<>> THEN 0 ELSE Head(vs)[x] + VecSum(Tail(vs), x)
GroupMean(vs, number_groups) ==
    [x \in DOMAIN vs[1] |-> VecSum(vs, x) \div number_groups]

\* The generation indices the comprehensions of lines 204-205 run over,
\* from 1 here: range(num_gens).
ReducedGens(num_gens) == 1..num_gens

\* Lines 204-207.
Reduce ==
    /\ pc = "loop"
    /\ LoopIndex = args.num_gens
    /\ result' =
         [status |-> "ok",
          strategies_total |->
            [t \in DOMAIN self.num_strats |->
               [g \in ReducedGens(args.num_gens) |->
                  GroupMean([j \in 1..self.number_groups |-> objs[strategies[g]][j][t]],
                            self.number_groups)]],
          payoffs_total |->
            [t \in DOMAIN self.num_strats |->
               [g \in ReducedGens(args.num_gens) |->
                  GroupMean([j \in 1..self.number_groups |-> payoffs[g][j][t]],
                            self.number_groups)]]]
    /\ pc' = "done"
    /\ UNCHANGED <<roundVars, payoffVars>>
    /\ UNCHANGED <<self, args, objs, start_state, strategies, payoffs, ncalls,
                   synth, returned>>

Next ==
    \/ SynthesizeStart
    \/ FixationSeed
    \/ AdoptStart
    \/ StoreInitial
    \/ Generation
    \/ Reduce

Spec == InitSim /\ [][Next]_vars

-----------------------------------------------------------------------------
(* round_individuals: claims C1 and C7 *)

RoundDone == rout # NotCalled

\* Python's round(x) with no digits: the nearest integer, half way to even.
NearestInt(x) ==
    LET lo == x \div Scale
        rem == x - lo * Scale
    IN  IF 2 * rem < Scale THEN lo
        ELSE IF 2 * rem > Scale THEN lo + 1
        ELSE IF lo % 2 = 0 THEN lo ELSE lo + 1

\* The fractional part of the i-th input.
Frac(v, i) == v[i] - int(v[i]) * Scale

\* The indices round_individuals gave one more than their integer part.
Raised(v, out) == { i \in DOMAIN v : out[i] = int(v[i]) + 1 }

\* C1 as stated: round_individuals(v) never fails, returns as many integers
\* as it was given, and their sum is the total of the inputs, rounded to 5
\* decimal digits and then to the nearest integer.
C1_SumIsNearestInteger ==
    RoundDone =>
        /\ rout.status = "ok"
        /\ Len(rout.value) = Len(rin)
        /\ SumSeq(rout.value) = NearestInt(round(fsum(rin)))

\* C1 as amended: round_individuals(v) never fails, returns as many integers
\* as it was given, and their sum is the largest integer not above the total
\* of the inputs rounded to 5 decimal digits (the rounded total truncated).
C1_SumIsTruncatedRoundedTotal ==
    RoundDone =>
        /\ rout.status = "ok"
        /\ Len(rout.value) = Len(rin)
        /\ \A i \in DOMAIN rout.value : rout.value[i] \in Int
        /\ SumSeq(rout.value) * Scale <= round(fsum(rin))
        /\ round(fsum(rin)) < (SumSeq(rout.value) + 1) * Scale

\* A call whose total is not an integer and whose deficit made the loop run.
C1_Witness ==
    /\ RoundDone
    /\ rout.status = "ok"
    /\ round(fsum(rin)) % Scale # 0
    /\ SumSeq(rout.value) > SumSeq([i \in DOMAIN rin |-> int(rin[i])])

\* C7: round_individuals follows the largest-remainder rule. With d the
\* target total less the sum of the integer parts, exactly d indices get
\* their integer part plus one and every other index its integer part; each
\* index that got the extra one has a larger fractional part than each that
\* did not, or an equal one and a lower index; [1.6, 1.3, 1.1] gives [2, 1, 1].
C7_LargestRemainder ==
    (RoundDone /\ rout.status = "ok") =>
        LET out == rout.value
            d   == RoundTotal(rin) - SumSeq([i \in DOMAIN rin |-> int(rin[i])])
            up  == Raised(rin, out)
        IN  /\ d >= 0
            /\ Cardinality(up) = d
            /\ \A i \in DOMAIN rin \ up : out[i] = int(rin[i])
            /\ \A i \in up : \A j \in DOMAIN rin \ up :
                   \/ Frac(rin, i) > Frac(rin, j)
                   \/ (Frac(rin, i) = Frac(rin, j) /\ i < j)
            /\ (rin = <<1600000, 1300000, 1100000>> => out = <<2, 1, 1>>)

\* A call where two equal fractional parts competed for the last extra one.
C7_Witness ==
    /\ RoundDone
    /\ rout.status = "ok"
    /\ \E i \in Raised(rin, rout.value) :
          \E j \in DOMAIN rin \ Raised(rin, rout.value) :
              Frac(rin, i) = Frac(rin, j) /\ Frac(rin, i) > 0 /\ i < j

-----------------------------------------------------------------------------
(* simulate: claims C2, C3, C4, C5, C6, C8 and C10 *)

Finite == ~self.infinite_pop_size

\* The value now held by the trajectory entry of generation index g - 1.
Stored(g) == objs[strategies[g]]

\* The type-0 vector of the only group of the start state.
SeededVec == objs[1][1][1]

\* Fixation seeding has just rewritten a synthesized start state.
JustSeeded ==
    /\ pc = "store"
    /\ ~args.start_state.given
    /\ args.fixation_probability

\* C2: in a finite-population run every stored generation, generation 0
\* included (supplied or synthesized), has for every group and type a vector
\* that sums to num_players[type]; a synthesized start state passes
\* validate_state.
C2_PopulationConserved ==
    (Finite /\ pc \in {"loop", "done"}) =>
        /\ \A g \in DOMAIN strategies : \A j \in 1..self.number_groups :
             \A t \in DOMAIN self.num_players :
                SumSeq(Stored(g)[j][t]) = self.num_players[t]
        /\ \A j \in 1..self.number_groups : validate_state(self, Stored(1)[j]) = "ok"

C4_MultiGroupFixationRejected ==
    (args.fixation_probability /\ self.number_groups > 1) =>
        (ncalls = 0 /\ pc # "done")

\* The sum over the groups of entry x of type t in the stored states / payoffs
\* of generation index g - 1.
RawStateSum(g, t, x) ==
    VecSum([j \in 1..self.number_groups |-> Stored(g)[j][t]], x)
RawPayoffSum(g, t, x) ==
    VecSum([j \in 1..self.number_groups |-> payoffs[g][j][t]], x)

\* C5: the reduced state and payoff trajectories of every type have an entry
\* for every generation index 0..num_gens, each the mean over the groups of
\* the stored per-group values.
C5_ReducedCoversAllGenerations ==
    pc = "done" =>
        \A t \in DOMAIN self.num_strats :
            /\ DOMAIN result.strategies_total[t] = 1..(args.num_gens + 1)
            /\ DOMAIN result.payoffs_total[t] = 1..(args.num_gens + 1)
            /\ \A g \in 1..(args.num_gens + 1) : \A x \in 1..self.num_strats[t] :
                 /\ result.strategies_total[t][g][x] * self.number_groups
                      = RawStateSum(g, t, x)
                 /\ result.payoffs_total[t][g][x] * self.number_groups
                      = RawPayoffSum(g, t, x)

\* What the code does reduce: generation indices 0..num_gens-1, correctly.
C5_ReducedButTheLast ==
    pc = "done" =>
        \A t \in DOMAIN self.num_strats :
            /\ DOMAIN result.strategies_total[t] = 1..args.num_gens
            /\ DOMAIN result.payoffs_total[t] = 1..args.num_gens
            /\ \A g \in 1..args.num_gens : \A x \in 1..self.num_strats[t] :
                 /\ result.strategies_total[t][g][x] * self.number_groups
                      = RawStateSum(g, t, x)
                 /\ result.payoffs_total[t][g][x] * self.number_groups
                      = RawPayoffSum(g, t, x)

\* A group state that breaks the transition rule's contract, as C6 lists it.
ContractBroken(s) ==
    \/ Len(s) # Len(self.num_strats)
    \/ \E t \in DOMAIN s : t \in DOMAIN self.num_strats /\
          (Len(s[t]) # self.num_strats[t] \/ SumSeq(s[t]) # self.num_players[t])

\* C6: when a next_generation call returns a group state with a wrong number
\* of player types, a wrong vector length or a wrong total, the run aborts
\* at that generation: that call is the last one, simulate returns nothing,
\* and the state is never the input of a later transition.
C6_InvalidReturnAborts ==
    \A c \in DOMAIN returned :
        (\E j \in 1..self.number_groups : ContractBroken(returned[c][j])) =>
            /\ c = Len(returned)
            /\ ncalls = c
            /\ pc = "AssertionError"
            /\ result = NotCalled

\* A run aborted in its second generation or later on a wrong total alone.
C6_Witness ==
    /\ ncalls >= 2
    /\ pc = "AssertionError"
    /\ \E j \in 1..self.number_groups : returned[ncalls][j] = BadSum(self)

\* C8: no stored trajectory entry is the object handed to next_generation as
\* previous, so a rule rewriting previous in place changes no stored entry:
\* no step changes the value of an entry already stored.
C8_StoredEntriesFrozen ==
    [][\A g \in DOMAIN strategies : objs'[strategies[g]] = objs[strategies[g]]]_vars

\* The aliasing itself: the object about to be passed as previous is stored.
C8_PreviousIsStored ==
    (pc = "loop" /\ LoopIndex < args.num_gens) =>
        \E g \in DOMAIN strategies : strategies[g] = start_state

\* C10: after fixation seeding of a multinomial start state of a finite
\* population (one group, strategy_indx in range) every entry of the type-0
\* vector is a non-negative count.
C10_SeededCountsNonNegative ==
    (JustSeeded /\ Finite /\ ~self.uniDist) =>
        \A x \in DOMAIN SeededVec : SeededVec[x] >= 0

-----------------------------------------------------------------------------
(* calculate_payoffs: claim C9 *)

AllPairs(m) == { ij \in (DOMAIN m) \X (1..PayMaxStrats) : ij[2] <= Len(m[ij[1]]) }

\* C9: for every state of non-zero total population and every payoff
\* configuration, player types with different numbers of strategies
\* included, calculate_payoffs returns the expected payoff of every (type,
\* strategy) pair and an average equal to the sum over ALL (type, strategy)
\* pairs of payoff * count, divided by the total population.
C9_AverageOverAllPairs ==
    (pout # NotCalled) =>
        /\ pout.status = "ok"
        /\ \A ij \in AllPairs(pm) : pout.payoff[ij[1]][ij[2]] = pm[ij[1]][ij[2]]
        /\ pout.avg_group_payoff.den = SumAll(pstate)
        /\ pout.avg_group_payoff.num = SumOver(AllPairs(pm), pm, pstate)

\* C9 restricted to the case the code handles: all types have as many
\* strategies as the first.
C9_EqualStrategyCounts ==
    (pout # NotCalled /\ \A p \in DOMAIN pm : Len(pm[p]) = Len(pm[1])) =>
        /\ pout.status = "ok"
        /\ pout.avg_group_payoff.den = SumAll(pstate)
        /\ pout.avg_group_payoff.num = SumOver(AllPairs(pm), pm, pstate)

====
